---- MODULE Spec2Model ----
(***************************************************************************)
(* State machine of the TradeScape dashboard (src/tradeScape.py): the      *)
(* configuration file, the values of the Dash components, the two          *)
(* dcc.Store components, the emitted figure, and the callbacks             *)
(* update_graph_and_shapes, update_shape_selector, save_work, load_work    *)
(* and update_chart.                                                       *)
(*                                                                         *)
(* Spec            the session, the configuration file always writable     *)
(* SpecFaults      the session, with writes of the file that fail          *)
(* SpecIndicators  the calculate_* methods of StockData on a fetched frame *)
(*                                                                         *)
(* Encoding of Python values:                                              *)
(*   dict            function with string keys (a record); a key that is   *)
(*                   absent from the dict is absent from the DOMAIN        *)
(*   list            sequence                                              *)
(*   checklist value the set of its members (the code only tests `in`)     *)
(*   None (row no.)  0                                                     *)
(*   None (string)   NoneStr                                               *)
(*   a JSON number where a shape object is expected: [json_number |-> n]   *)
(***************************************************************************)
EXTENDS Integers, Sequences, FiniteSets, TLC

\* ------------------------------------------------------------------ bounds
MaxShapes == 2
MaxFetchFailures == 1
MaxWriteFailures == 1

\* ------------------------------------------------------------ dictionaries
EmptyDict == [k \in {} |-> 0]

\* dict.get(k, default)
Get(d, k, default) == IF k \in DOMAIN d THEN d[k] ELSE default

\* d1.update(d2): the keys of d2 win
DictUpdate(d1, d2) ==
  [k \in (DOMAIN d1) \cup (DOMAIN d2) |-> IF k \in DOMAIN d2 THEN d2[k] ELSE d1[k]]

\* ----------------------------------------------------------------- shapes
S_rect == [type |-> "rect"]
S_line == [type |-> "line", line |-> [width |-> 1]]
S_thick == [type |-> "circle", line |-> [width |-> 5, color |-> "red"]]
S_number == [json_number |-> 5]

\* the shapes the drawing tools of the graph add
DrawnShapes == {S_line}

\* a shape the handlers can treat as a dict
IsObject(shape) == "json_number" \notin DOMAIN shape

\* ------------------------------------------------------------- view states
GS_zoom == ("xaxis.range" :> "zoomed")
GS_bg == ("plot_bgcolor" :> "gs_color")

\* --------------------------------------------------------- config file
SettingKeys ==
  {"data_source", "stock", "time_period", "interval", "chart_type",
   "extended_hours", "indicators", "yaxis_position", "bg_color",
   "yaxis_dtick", "auto_refresh"}

\* the dict load_config returns when the file is absent or unreadable
DefaultConfig ==
  [data_source |-> "yahoo", stock |-> "AAPL", time_period |-> "6mo",
   interval |-> "1d", chart_type |-> "candlestick", extended_hours |-> {},
   indicators |-> {"ma"}, yaxis_position |-> "both", bg_color |-> "white",
   yaxis_dtick |-> 10, auto_refresh |-> {"enabled"}, notes |-> "",
   graph_state |-> EmptyDict, shapes |-> <<>>]

\* CONFIG_FILE on disk: absent, present but not JSON, or a JSON object
FileAbsent == [status |-> "absent", content |-> EmptyDict]
FileCorrupt == [status |-> "corrupt", content |-> EmptyDict]
FileOf(config) == [status |-> "ok", content |-> config]

load_config(file) ==
  IF file.status = "ok" THEN file.content ELSE DefaultConfig

save_config(config) == FileOf(config)

\* a workspace file as save_work exports it (all 14 fields)
W_full ==
  [data_source |-> "alpha_vantage", stock |-> "TSLA", time_period |-> "1y",
   interval |-> "1wk", chart_type |-> "line", extended_hours |-> {"extended"},
   indicators |-> {"rsi", "macd"}, yaxis_position |-> "left",
   bg_color |-> "#1e1e1e", yaxis_dtick |-> 5, auto_refresh |-> {},
   notes |-> "memo", graph_state |-> GS_bg, shapes |-> <<S_rect, S_thick>>]

\* a workspace object with fields missing, `shapes` among them
W_partial ==
  [data_source |-> "other", indicators |-> {"rsi"}, notes |-> "memo"]

\* a JSON object whose `shapes` is not a list of shape objects
W_badshapes == [indicators |-> {"macd"}, shapes |-> <<S_number>>]

\* the files the first session can find on disk
InitialFiles == {FileAbsent, FileCorrupt, FileOf(W_full)}

\* ------------------------------------------------------ component values
\* key of the configuration |-> the component property that carries it
PropId ==
  [data_source |-> "data-source.value", stock |-> "stock-dropdown.value",
   time_period |-> "time-period.value", interval |-> "interval.value",
   chart_type |-> "chart-type.value", extended_hours |-> "extended-hours.value",
   indicators |-> "indicators.value", yaxis_position |-> "yaxis-position.value",
   bg_color |-> "bg-color.value", yaxis_dtick |-> "yaxis-tick-slider.value",
   auto_refresh |-> "auto-refresh-check.value", notes |-> "notes-textarea.value"]

ControlKeys == SettingKeys \cup {"notes"}

TimerProp == "interval-component.n_intervals"
ShapesProp == "shapes-store.data"
InitialProp == "."

\* the values setup_layout gives the components
Layout(config) == [k \in ControlKeys |-> Get(config, k, DefaultConfig[k])]

\* what the user sets a component to; the other components get their values
\* from the configuration file and from uploaded workspaces
UserChoices ==
  [data_source |-> {"yahoo", "alpha_vantage"}]

\* --------------------------------------------------- str(i) and int(s)
NoneStr == "None"
Numerals == <<"0", "1", "2", "3", "4", "5", "6", "7", "8", "9">>
str(i) == Numerals[i + 1]
int(s) == IF s = "-1" THEN -1 ELSE CHOOSE i \in 0..9 : Numerals[i + 1] = s

\* ------------------------------------------- update_graph_and_shapes
RelayoutProp == "stock-graph.relayoutData"
DeleteProp == "delete-shape-btn.n_clicks"
ClearProp == "clear-shapes-btn.n_clicks"

\* [s for i, s in enumerate(current_shapes) if i != idx], from position i on
RECURSIVE delete_shape_from(_, _, _)
delete_shape_from(current_shapes, i, idx) ==
  IF i > Len(current_shapes) THEN <<>>
  ELSE (IF i - 1 # idx THEN <<current_shapes[i]>> ELSE <<>>)
         \o delete_shape_from(current_shapes, i + 1, idx)

\* the same with the index handled as `del current_shapes[idx]` handles it
delete_shape_pop(current_shapes, idx) ==
  LET n == Len(current_shapes)
      at == IF idx < 0 THEN idx + n ELSE idx
  IN IF at \in 0..(n - 1)
     THEN SubSeq(current_shapes, 1, at) \o SubSeq(current_shapes, at + 2, n)
     ELSE current_shapes

\* the same with the list cut at the index: current_shapes[:idx]
delete_shape_cut(current_shapes, idx) ==
  IF idx \in 0..(Len(current_shapes) - 1)
  THEN SubSeq(current_shapes, 1, idx)
  ELSE current_shapes

delete_shape(current_shapes, idx) == delete_shape_from(current_shapes, 1, idx)

\* the clear branch leaving the list as it is
clear_shapes_keep(current_shapes) == current_shapes

clear_shapes(current_shapes) == <<>>

\* the shapes of the event added to the list
relayout_shapes_extend(relayoutData, current_shapes) ==
  IF "shapes" \in DOMAIN relayoutData
  THEN current_shapes \o relayoutData["shapes"]
  ELSE current_shapes

\* if "shapes" in relayoutData: current_shapes = relayoutData["shapes"]
relayout_shapes(relayoutData, current_shapes) ==
  IF "shapes" \in DOMAIN relayoutData THEN relayoutData["shapes"] ELSE current_shapes

update_graph_and_shapes(trigger, relayoutData, delete_click, clear_click, selected_shape_value, current_shapes, current_graph_state) ==
  IF trigger = RelayoutProp
  THEN IF relayoutData # EmptyDict
       THEN [shapes |-> relayout_shapes(relayoutData, current_shapes),
             graph_state |-> relayoutData]
       ELSE [shapes |-> current_shapes, graph_state |-> current_graph_state]
  ELSE IF trigger = DeleteProp
  THEN IF delete_click > 0 /\ selected_shape_value # NoneStr /\ current_shapes # <<>>
       THEN [shapes |-> delete_shape(current_shapes, int(selected_shape_value)),
             graph_state |-> current_graph_state]
       ELSE [shapes |-> current_shapes, graph_state |-> current_graph_state]
  ELSE IF trigger = ClearProp
  THEN IF clear_click > 0
       THEN [shapes |-> clear_shapes(current_shapes), graph_state |-> current_graph_state]
       ELSE [shapes |-> current_shapes, graph_state |-> current_graph_state]
  ELSE [shapes |-> current_shapes, graph_state |-> current_graph_state]

\* ---------------------------------------------- update_shape_selector
shape_option(i, shape) ==
  [label |-> <<"Shape", i, Get(shape, "type", "unknown")>>, value |-> str(i)]

\* raised: shape.get on an element that is not a dict
update_shape_selector(shapes_data) ==
  IF \E i \in 1..Len(shapes_data) : ~IsObject(shapes_data[i])
  THEN [raised |-> TRUE, options |-> <<>>]
  ELSE [raised |-> FALSE,
        options |-> [i \in 1..Len(shapes_data) |-> shape_option(i - 1, shapes_data[i])]]

\* ------------------------------------------------------------ load_work
\* contents of an upload: what the handler can make of it
\*   None       no upload yet (the initial call)
\*   nosplit    not of the form "<type>,<data>": the unpacking raises
\*   badbase64  b64decode raises
\*   notjson    json.loads raises
\*   nonobject  JSON, but not an object: loaded_config.get raises
\*   object     a JSON object
UploadKinds == {"None", "nosplit", "badbase64", "notjson", "nonobject", "object"}

Upload(kind, obj) == [kind |-> kind, obj |-> obj]

Uploads ==
  {Upload(k, EmptyDict) : k \in UploadKinds \ {"None", "object"}}
    \cup {Upload("object", w) : w \in {W_full, W_partial, W_badshapes}}

\* the keys of the 13 outputs of load_work
load_work_keys ==
  {"notes", "data_source", "stock", "time_period", "interval", "chart_type",
   "indicators", "yaxis_position", "bg_color", "yaxis_dtick", "auto_refresh",
   "graph_state", "shapes"}

\* a missing `shapes` defaulting to a list that is not empty
load_default_placeholder(k) == IF k = "shapes" THEN <<S_rect>> ELSE DefaultConfig[k]

\* the second argument of each loaded_config.get
load_default(k) == DefaultConfig[k]

\* result: "no_update", "raised" or "outputs" (with the value of each output)
load_work(contents) ==
  IF contents.kind = "None" THEN [result |-> "no_update", outputs |-> EmptyDict]
  ELSE IF contents.kind = "nosplit" THEN [result |-> "raised", outputs |-> EmptyDict]
  ELSE IF contents.kind \in {"badbase64", "notjson"}
  THEN [result |-> "no_update", outputs |-> EmptyDict]
  ELSE IF contents.kind = "nonobject" THEN [result |-> "raised", outputs |-> EmptyDict]
  ELSE [result |-> "outputs",
        outputs |-> [k \in load_work_keys |-> Get(contents.obj, k, load_default(k))]]

\* ------------------------------------------------------------ save_work
save_work(file, notes, graph_state_data, shapes_data) ==
  DictUpdate(load_config(file),
             [notes |-> notes, graph_state |-> graph_state_data, shapes |-> shapes_data])

\* ---------------------------------------------------------- update_chart
\* any(...) in the place of all(...)
only_interval_any(triggers) == \E t \in triggers : t = TimerProp

only_interval(triggers) == \A t \in triggers : t = TimerProp

\* the guard of the early return with the auto-refresh test inverted
chart_no_update_inverted(triggers, auto_refresh) ==
  only_interval(triggers) /\ "enabled" \in auto_refresh

chart_no_update(triggers, auto_refresh) ==
  only_interval(triggers) /\ "enabled" \notin auto_refresh

\* the dict handed to save_config
chart_config(values) == [k \in SettingKeys |-> values[k]]

rsi_row(indicators) == IF "rsi" \in indicators THEN 2 ELSE 0

\* MACD always on the second row
macd_row_second(indicators) == IF "macd" \in indicators THEN 2 ELSE 0

macd_row(indicators) ==
  IF "macd" \in indicators
  THEN (IF rsi_row(indicators) = 0 THEN 2 ELSE 3)
  ELSE 0

total_rows(indicators) ==
  1 + (IF "rsi" \in indicators THEN 1 ELSE 0) + (IF "macd" \in indicators THEN 1 ELSE 0)

subplot_titles(indicators) ==
  <<"Price Chart">>
    \o (IF rsi_row(indicators) # 0 THEN <<"RSI">> ELSE <<>>)
    \o (IF macd_row(indicators) # 0 THEN <<"MACD">> ELSE <<>>)

Trace(name, row) == [name |-> name, row |-> row]

price_trace(chart_type) ==
  IF chart_type = "candlestick" THEN <<Trace("Candlestick", 1)>>
  ELSE IF chart_type = "bar" THEN <<Trace("Bar Chart", 1)>>
  ELSE IF chart_type = "line" THEN <<Trace("Line Chart", 1)>>
  ELSE IF chart_type = "area" THEN <<Trace("Area Chart", 1)>>
  ELSE <<>>

chart_traces(chart_type, indicators) ==
  price_trace(chart_type)
    \o (IF "ma" \in indicators
        THEN <<Trace("Short SMA", 1), Trace("Long SMA", 1)>> ELSE <<>>)
    \o (IF "bb" \in indicators
        THEN <<Trace("Upper Bollinger Band", 1), Trace("Lower Bollinger Band", 1)>>
        ELSE <<>>)
    \o (IF "rsi" \in indicators THEN <<Trace("RSI", rsi_row(indicators))>> ELSE <<>>)
    \o (IF "macd" \in indicators
        THEN <<Trace("MACD", macd_row(indicators)),
               Trace("MACD Signal", macd_row(indicators))>>
        ELSE <<>>)

\* the calculate_* methods the evaluation calls
computed_indicators(indicators) == indicators \cap {"ma", "bb", "avg", "rsi", "macd"}

yaxis_settings(yaxis_position, yaxis_dtick) ==
  [title |-> "Stock Price",
   side |-> IF yaxis_position = "right" THEN "right" ELSE "left",
   dtick |-> yaxis_dtick]

layout_defaults(yaxis_position, bg_color, yaxis_dtick) ==
  LET base == ("xaxis_title" :> "Date and Time")
                @@ ("xaxis" :> [type |-> "date", tickformat |-> "%Y-%m-%d %H:%M"])
                @@ ("plot_bgcolor" :> bg_color)
                @@ ("uirevision" :> "static")
                @@ ("yaxis" :> yaxis_settings(yaxis_position, yaxis_dtick))
  IN IF yaxis_position = "both"
     THEN base @@ ("yaxis2" :> [title |-> "Stock Price", side |-> "right",
                                 overlaying |-> "y", showgrid |-> FALSE,
                                 dtick |-> yaxis_dtick])
     ELSE base

layout_update(yaxis_position, bg_color, yaxis_dtick, stored_graph_state) ==
  IF stored_graph_state # EmptyDict
  THEN DictUpdate(layout_defaults(yaxis_position, bg_color, yaxis_dtick),
                  stored_graph_state)
  ELSE layout_defaults(yaxis_position, bg_color, yaxis_dtick)

\* the stored width kept when the shape has one
crisp_shape_setdefault(shape) ==
  [k \in (DOMAIN shape) \cup {"line"} |->
     IF k = "line"
     THEN DictUpdate([width |-> 2], Get(shape, "line", EmptyDict))
     ELSE shape[k]]

\* shape["line"]["width"] = 2, the line dict created when missing
crisp_shape(shape) ==
  [k \in (DOMAIN shape) \cup {"line"} |->
     IF k = "line"
     THEN DictUpdate(Get(shape, "line", EmptyDict), [width |-> 2])
     ELSE shape[k]]

\* the list the loop leaves in the handler's argument shapes_data
crisp_shapes(shapes_data) ==
  [i \in 1..Len(shapes_data) |-> crisp_shape(shapes_data[i])]

\* the loop's list written back to the store, as if the store were an Output
store_written_back(store, shapes_data) == shapes_data

\* the shapes store after update_chart: the callback has the figure as its only
\* Output, and shapes_data is the request's own copy of the store
store_after_chart(store, shapes_data) == store

\* the loop over shapes_data raises on an element that is not a dict
shapes_raise(shapes_data) ==
  \E i \in 1..Len(shapes_data) : ~IsObject(shapes_data[i])

\* the figure update_chart returns once the data is there
chart_figure(values, shapes_data, stored_graph_state) ==
  LET lay == layout_update(values.yaxis_position, values.bg_color,
                           values.yaxis_dtick, stored_graph_state)
      titled == DictUpdate(lay,
                  [title |-> <<values.stock, values.time_period, values.interval>>,
                   showlegend |-> TRUE])
  IN [kind |-> "chart",
      rows |-> total_rows(values.indicators),
      subplot_titles |-> subplot_titles(values.indicators),
      traces |-> chart_traces(values.chart_type, values.indicators),
      hline |-> "avg" \in values.indicators,
      rsi_range |-> "rsi" \in values.indicators,
      layout |-> IF shapes_data # <<>>
                 THEN DictUpdate(titled,
                        [shapes |-> crisp_shapes(shapes_data)])
                 ELSE titled]

error_figure == [kind |-> "error", title |-> "Error fetching data"]

no_figure == [kind |-> "none"]

\* ============================================== the indicators
\* A float64 value, kept exact: nan, an infinity, a rational in lowest terms
\* with a positive denominator, or rat + sign * sqrt(radicand).
RECURSIVE GCD(_, _)
GCD(a, b) == IF b = 0 THEN a ELSE GCD(b, a % b)

Abs(x) == IF x < 0 THEN -x ELSE x

Sign(x) == IF x < 0 THEN -1 ELSE 1

NaN == [kind |-> "nan"]

Inf(sign) == [kind |-> "inf", sign |-> sign]

Rat(n, d) ==
  LET g == GCD(Abs(n), Abs(d))
  IN [kind |-> "num", num |-> (Sign(d) * n) \div g, den |-> Abs(d) \div g]

Zero == Rat(0, 1)

Surd(rat, sign, radicand) ==
  IF rat.kind = "nan" \/ radicand.kind = "nan" THEN NaN
  ELSE IF radicand = Zero THEN rat
  ELSE [kind |-> "surd", rat |-> rat, sign |-> sign, radicand |-> radicand]

FNeg(a) ==
  IF a.kind = "nan" THEN NaN
  ELSE IF a.kind = "inf" THEN Inf(-a.sign)
  ELSE IF a.kind = "num" THEN Rat(-a.num, a.den)
  ELSE Surd(Rat(-a.rat.num, a.rat.den), -a.sign, a.radicand)

FAdd(a, b) ==
  IF a.kind = "nan" \/ b.kind = "nan" THEN NaN
  ELSE IF a.kind = "inf"
  THEN (IF b.kind = "inf" /\ b.sign # a.sign THEN NaN ELSE a)
  ELSE IF b.kind = "inf" THEN b
  ELSE IF a.kind = "num" /\ b.kind = "num"
  THEN Rat(a.num * b.den + b.num * a.den, a.den * b.den)
  ELSE IF a.kind = "num"
  THEN Surd(Rat(a.num * b.rat.den + b.rat.num * a.den, a.den * b.rat.den),
            b.sign, b.radicand)
  ELSE Surd(Rat(b.num * a.rat.den + a.rat.num * b.den, b.den * a.rat.den),
            a.sign, a.radicand)

FSub(a, b) == FAdd(a, FNeg(b))

\* a product with a finite rational factor b
FMul(a, b) ==
  IF a.kind = "nan" \/ b.kind = "nan" THEN NaN
  ELSE IF a.kind = "inf"
  THEN (IF b.num = 0 THEN NaN ELSE Inf(a.sign * Sign(b.num)))
  ELSE IF a.kind = "num" THEN Rat(a.num * b.num, a.den * b.den)
  ELSE Surd(Rat(a.rat.num * b.num, a.rat.den * b.den), a.sign * Sign(b.num),
            Rat(a.radicand.num * b.num * b.num, a.radicand.den * b.den * b.den))

\* a quotient of rationals and infinities, as IEEE 754 defines it
FDiv(a, b) ==
  IF a.kind = "nan" \/ b.kind = "nan" THEN NaN
  ELSE IF a.kind = "inf"
  THEN (IF b.kind = "inf" THEN NaN ELSE Inf(a.sign * Sign(b.num)))
  ELSE IF b.kind = "inf" THEN Zero
  ELSE IF b.num = 0
  THEN (IF a.num = 0 THEN NaN ELSE Inf(Sign(a.num)))
  ELSE Rat(a.num * b.den, a.den * b.num)

FSqrt(a) ==
  IF a.kind = "nan" THEN NaN
  ELSE IF a.kind = "inf" THEN (IF a.sign > 0 THEN a ELSE NaN)
  ELSE IF a.num < 0 THEN NaN
  ELSE Surd(Zero, 1, a)

\* a <= b for rationals
FLeq(a, b) == a.num * b.den <= b.num * a.den

\* ------------------------------------------------- pandas.Series methods
\* Series.diff()
diff(col) ==
  [i \in 1..Len(col) |-> IF i = 1 THEN NaN ELSE FSub(col[i], col[i - 1])]

\* Series.clip(lower=0)
clip_lower(col) ==
  [i \in 1..Len(col) |->
     IF col[i].kind = "num" /\ col[i].num < 0 THEN Zero ELSE col[i]]

\* Series.clip(upper=0)
clip_upper(col) ==
  [i \in 1..Len(col) |->
     IF col[i].kind = "num" /\ col[i].num > 0 THEN Zero ELSE col[i]]

negated(col) == [i \in 1..Len(col) |-> FNeg(col[i])]

squared(col) == [i \in 1..Len(col) |-> FMul(col[i], col[i])]

\* the sum of col[lo..hi], by halves; nan as soon as one of them is nan
RECURSIVE window_sum(_, _, _)
window_sum(col, lo, hi) ==
  IF lo > hi THEN Zero
  ELSE IF lo = hi THEN col[lo]
  ELSE LET mid == (lo + hi) \div 2
       IN FAdd(window_sum(col, lo, mid), window_sum(col, mid + 1, hi))

\* the rolling mean with min_periods=1: a value for every shorter window too
rolling_mean_partial(col, window) ==
  [i \in 1..Len(col) |->
     LET lo == IF i < window THEN 1 ELSE i - window + 1
     IN FDiv(window_sum(col, lo, i), Rat(i - lo + 1, 1))]

\* Series.rolling(window).mean(): min_periods is the window, so a window that
\* is not full, or holds a nan, gives nan
rolling_mean(col, window) ==
  [i \in 1..Len(col) |->
     IF i < window THEN NaN
     ELSE FDiv(window_sum(col, i - window + 1, i), Rat(window, 1))]

\* the sum of the squared deviations from the mean of col[lo..hi]
squared_deviations(col, lo, hi) ==
  LET sum == window_sum(col, lo, hi)
  IN FSub(window_sum(squared(col), lo, hi),
          FDiv(FMul(sum, sum), Rat(hi - lo + 1, 1)))

\* the variance without the mean taken off
rolling_var_raw(col, window) ==
  [i \in 1..Len(col) |->
     IF i < window THEN NaN
     ELSE FDiv(window_sum(squared(col), i - window + 1, i), Rat(window - 1, 1))]

\* the square of Series.rolling(window).std(): ddof is 1
rolling_var(col, window) ==
  [i \in 1..Len(col) |->
     IF i < window THEN NaN
     ELSE FDiv(squared_deviations(col, i - window + 1, i), Rat(window - 1, 1))]

rolling_std(col, window) ==
  LET var == rolling_var(col, window)
  IN [i \in 1..Len(col) |-> FSqrt(var[i])]

\* --------------------------------------- StockData.calculate_* methods
short_window == 20
long_window == 50
bollinger_window == 20
std_factor == 2
rsi_window == 14

calculate_moving_averages(data) ==
  DictUpdate(data,
    [SMA_Short |-> rolling_mean(data["Close"], short_window),
     SMA_Long |-> rolling_mean(data["Close"], long_window)])

calculate_bollinger_bands(data) ==
  LET sma == rolling_mean(data["Close"], bollinger_window)
      std == rolling_std(data["Close"], bollinger_window)
  IN DictUpdate(data,
       [SMA |-> sma,
        UpperBand |-> [i \in 1..Len(sma) |->
                         FAdd(sma[i], FMul(std[i], Rat(std_factor, 1)))],
        LowerBand |-> [i \in 1..Len(sma) |->
                         FSub(sma[i], FMul(std[i], Rat(std_factor, 1)))]])

\* rs with gain and loss exchanged
relative_strength_swapped(avg_gain, avg_loss) ==
  [i \in 1..Len(avg_gain) |-> FDiv(avg_loss[i], avg_gain[i])]

\* rs = avg_gain / avg_loss
relative_strength(avg_gain, avg_loss) ==
  [i \in 1..Len(avg_gain) |-> FDiv(avg_gain[i], avg_loss[i])]

\* the columns calculate_rsi works with
rsi_averages(data) ==
  LET delta == diff(data["Close"])
  IN [avg_gain |-> rolling_mean(clip_lower(delta), rsi_window),
      avg_loss |-> rolling_mean(negated(clip_upper(delta)), rsi_window)]

calculate_rsi(data) ==
  LET avg == rsi_averages(data)
      rs == relative_strength(avg.avg_gain, avg.avg_loss)
  IN DictUpdate(data,
       [RSI |-> [i \in 1..Len(rs) |->
                   FSub(Rat(100, 1), FDiv(Rat(100, 1), FAdd(Rat(1, 1), rs[i])))]])

\* float64 rounds the exponential averages; the recursion is carried with
\* Precision steps per unit, rounded down, on values that are all defined
Precision == 1000

fixed(v) == (v.num * Precision) \div v.den

\* the recursion of ewm(span, adjust=False).mean() up to bar n: the first value
\* seeds it, then y[t] = (1 - alpha) * y[t-1] + alpha * x[t], alpha = 2/(span+1)
RECURSIVE ewm_recursion(_, _, _)
ewm_recursion(x, span, n) ==
  IF n = 0 THEN <<>>
  ELSE IF n = 1 THEN <<x[1]>>
  ELSE LET y == ewm_recursion(x, span, n - 1)
       IN Append(y, ((span - 1) * y[n - 1] + 2 * x[n]) \div (span + 1))

\* an average that is undefined until span values are there
ewm_mean_min_periods(col, span) ==
  LET y == ewm_recursion([i \in 1..Len(col) |-> fixed(col[i])], span, Len(col))
  IN [i \in 1..Len(col) |-> IF i < span THEN NaN ELSE Rat(y[i], Precision)]

\* Series.ewm(span=span, adjust=False).mean()
ewm_mean(col, span) ==
  LET y == ewm_recursion([i \in 1..Len(col) |-> fixed(col[i])], span, Len(col))
  IN [i \in 1..Len(col) |-> Rat(y[i], Precision)]

fast_span == 12
slow_span == 26
signal_span == 9

calculate_macd(data) ==
  LET ema12 == ewm_mean(data["Close"], fast_span)
      ema26 == ewm_mean(data["Close"], slow_span)
      macd == [i \in 1..Len(ema12) |-> FSub(ema12[i], ema26[i])]
  IN DictUpdate(data,
       [MACD |-> macd, MACD_Signal |-> ewm_mean(macd, signal_span)])

\* ------------------------------------------------- the close series
MaxBars == 60

\* the changes of the close from bar to bar, repeated: flat, rising, falling,
\* three up and one down
Flat == <<0>>
Rising == <<1>>
Falling == <<-1>>
ZigZag == <<3, -1>>

\* the pattern of the first half of a series and of the rest of it
SeriesShapes ==
  {<<Flat, Flat>>, <<Rising, Rising>>, <<Falling, Falling>>, <<ZigZag, ZigZag>>,
   <<Flat, Rising>>, <<ZigZag, Flat>>}

\* the change from bar i to bar i + 1 in a series of n bars
Change(shape, n, i) ==
  LET pattern == IF i <= n \div 2 THEN shape[1] ELSE shape[2]
  IN pattern[((i - 1) % Len(pattern)) + 1]

\* the sum of the changes from bar lo to bar hi + 1, by halves
RECURSIVE Changes(_, _, _, _)
Changes(shape, n, lo, hi) ==
  IF lo > hi THEN 0
  ELSE IF lo = hi THEN Change(shape, n, lo)
  ELSE LET mid == (lo + hi) \div 2
       IN Changes(shape, n, lo, mid) + Changes(shape, n, mid + 1, hi)

\* the closes of n bars that start at 100
Closes(shape, n) == [i \in 1..n |-> 100 + Changes(shape, n, 1, i - 1)]

\* the frame fetch_data leaves in self.data
Frame(closes) == [Close |-> [i \in 1..Len(closes) |-> Rat(closes[i], 1)]]

FetchedFrames ==
  {Frame(Closes(shape, n)) : shape \in SeriesShapes, n \in 0..MaxBars}

\* ================================================================ state
VARIABLES
  config_file,      \* CONFIG_FILE on disk
  self_config,      \* StockAnalysisApp.config: the keys read after setup_layout
  controls,         \* the value of each settings component and of the notes
  shapes_store,     \* dcc.Store "shapes-store"
  graph_state,      \* dcc.Store "graph-state"
  selector_options, \* options of "shape-selector"
  figure,           \* figure of "stock-graph"
  download_work,    \* data handed to "download-work" by the step just taken
  pending_chart,    \* changed inputs update_chart has still to be run for
  pending_selector, \* update_shape_selector has still to be run
  pending_initial,  \* update_graph_and_shapes has still to make its initial call
  fetch_failures,   \* provider calls that failed in this session
  write_failures,   \* writes of CONFIG_FILE that failed in this session
  last,             \* the handler that ran last, with its arguments and outcome
  imported,         \* the workspace imported last, while nothing was edited since
  stock_data,       \* StockData.data: the columns of the data frame
  in_flight         \* callback requests sent by the page and not answered yet

vars ==
  <<config_file, self_config, controls, shapes_store, graph_state,
    selector_options, figure, download_work, pending_chart,
    pending_selector, pending_initial, fetch_failures, write_failures, last,
    imported, stock_data, in_flight>>

NotImported == [active |-> FALSE, w |-> EmptyDict]

\* no data frame: the specifications of the session carry the names of the
\* traces of a figure, not their values
NoData == [Close |-> <<>>]

\* no callback is waiting to run
Idle == pending_chart = {} /\ ~pending_selector /\ ~pending_initial

NoDownload == [sent |-> FALSE, content |-> EmptyDict]

\* the keys of self.config that are read once the layout is built
ConfigKeysInUse == {"graph_state"}

Restrict(d, keys) == [k \in (DOMAIN d) \cap keys |-> d[k]]

\* __init__ (load_config, setup_layout) followed by the page load
SessionStart(file, cfg, ctl, shp, gst, opts, fig, dl, pc, ps, pi) ==
  /\ cfg = Restrict(load_config(file), ConfigKeysInUse)
  /\ ctl = Layout(load_config(file))
  /\ shp = Get(load_config(file), "shapes", <<>>)
  /\ gst = Get(load_config(file), "graph_state", EmptyDict)
  /\ opts = <<>>
  /\ fig = no_figure
  /\ dl = NoDownload
  /\ pc = {InitialProp}
  /\ ps = TRUE
  /\ pi = TRUE

Init ==
  /\ config_file \in InitialFiles
  /\ SessionStart(config_file, self_config, controls, shapes_store, graph_state,
                  selector_options, figure, download_work,
                  pending_chart, pending_selector, pending_initial)
  /\ fetch_failures = 0
  /\ write_failures = 0
  /\ last = [op |-> "start"]
  /\ imported = NotImported
  /\ stock_data = NoData
  /\ in_flight = {}

\* the application is stopped and started again
Restart ==
  /\ Idle
  /\ SessionStart(config_file, self_config', controls', shapes_store', graph_state',
                  selector_options', figure', download_work',
                  pending_chart', pending_selector', pending_initial')
  /\ fetch_failures' = 0
  /\ write_failures' = 0
  /\ last' = [op |-> "restart"]
  /\ imported' = NotImported
  /\ UNCHANGED <<config_file, stock_data, in_flight>>

\* the user sets a component
SetInput(k, v) ==
  /\ Idle
  /\ controls' = [controls EXCEPT ![k] = v]
  /\ pending_chart' = IF k \in SettingKeys THEN {PropId[k]} ELSE {}
  /\ last' = [op |-> "set_input", key |-> k]
  /\ download_work' = NoDownload
  /\ imported' = NotImported
  /\ UNCHANGED <<config_file, self_config, shapes_store, graph_state,
                 selector_options, figure,
                 pending_selector, pending_initial, fetch_failures,
                 write_failures, stock_data, in_flight>>

\* dcc.Interval fires
Tick ==
  /\ ~pending_initial
  /\ TimerProp \notin pending_chart
  /\ pending_chart' = pending_chart \cup {TimerProp}
  /\ last' = [op |-> "tick"]
  /\ download_work' = NoDownload
  /\ UNCHANGED <<config_file, self_config, controls, shapes_store, graph_state,
                 selector_options, figure,
                 pending_selector, pending_initial, imported, fetch_failures,
                 write_failures, stock_data, in_flight>>

\* one invocation of update_graph_and_shapes on the State values the request
\* carried; both outputs are emitted
GraphAndShapesOn(trigger, relayoutData, selected_shape, current_shapes, current_graph_state) ==
  LET out == update_graph_and_shapes(trigger, relayoutData, 1, 1, selected_shape,
                                      current_shapes, current_graph_state)
  IN /\ shapes_store' = out.shapes
     /\ graph_state' = out.graph_state
     /\ pending_chart' = (pending_chart \ {InitialProp}) \cup {ShapesProp}
     /\ pending_selector' = TRUE
     /\ last' = [op |-> "update_graph_and_shapes", trigger |-> trigger,
                 relayoutData |-> relayoutData, selected_shape |-> selected_shape]
     /\ download_work' = NoDownload
     /\ UNCHANGED <<config_file, self_config, controls, selector_options, figure,
                    fetch_failures,
                    write_failures, stock_data>>

\* the request is answered before anything else happens on the page
GraphAndShapes(trigger, relayoutData, selected_shape) ==
  /\ GraphAndShapesOn(trigger, relayoutData, selected_shape, shapes_store, graph_state)
  /\ UNCHANGED in_flight

InitialGraphAndShapes ==
  /\ pending_initial
  /\ pending_initial' = FALSE
  /\ GraphAndShapes(InitialProp, EmptyDict, NoneStr)
  /\ UNCHANGED imported

\* the shape list without its i-th shape (i from 1)
Erased(l, i) == SubSeq(l, 1, i - 1) \o SubSeq(l, i + 1, Len(l))

\* the relayout events of the graph: nothing, a pan/zoom, a drawn shape (the
\* event lists every shape of the graph), an erased shape
RelayoutEvents ==
  {EmptyDict, GS_zoom}
    \cup {[shapes |-> Append(shapes_store, s)] :
            s \in {d \in DrawnShapes : Len(shapes_store) < MaxShapes}}
    \cup {[shapes |-> Erased(shapes_store, i)] : i \in 1..Len(shapes_store)}

Relayout(relayoutData) ==
  /\ Idle
  /\ GraphAndShapes(RelayoutProp, relayoutData, NoneStr)
  /\ imported' = NotImported
  /\ UNCHANGED pending_initial

\* the values the shape selector can hold when the delete button is clicked:
\* nothing, or an option it offered for the current or for an earlier shape list
SelectorValues == {NoneStr} \cup {str(i) : i \in 0..(MaxShapes - 1)}

DeleteClick(selected_shape) ==
  /\ Idle
  /\ GraphAndShapes(DeleteProp, EmptyDict, selected_shape)
  /\ imported' = NotImported
  /\ UNCHANGED pending_initial

ClearClick ==
  /\ Idle
  /\ GraphAndShapes(ClearProp, EmptyDict, NoneStr)
  /\ imported' = NotImported
  /\ UNCHANGED pending_initial

\* one invocation of update_shape_selector
ShapeSelector ==
  /\ pending_selector
  /\ ~pending_initial
  /\ pending_selector' = FALSE
  /\ LET out == update_shape_selector(shapes_store)
     IN /\ selector_options' = IF out.raised THEN selector_options ELSE out.options
        /\ last' = [op |-> "update_shape_selector", raised |-> out.raised]
  /\ download_work' = NoDownload
  /\ UNCHANGED <<config_file, self_config, controls, shapes_store, graph_state,
                 figure, pending_chart,
                 pending_initial, imported, fetch_failures,
                 write_failures, stock_data, in_flight>>

\* one invocation of load_work on an upload
LoadWorkOn(contents) ==
  /\ LET out == load_work(contents)
     IN /\ IF out.result = "outputs"
           THEN /\ controls' = [k \in ControlKeys |->
                                  IF k \in load_work_keys THEN out.outputs[k]
                                  ELSE controls[k]]
                /\ graph_state' = out.outputs["graph_state"]
                /\ shapes_store' = out.outputs["shapes"]
                /\ pending_chart' =
                     {PropId[k] : k \in load_work_keys \cap SettingKeys} \cup {ShapesProp}
                /\ pending_selector' = TRUE
                /\ imported' = [active |-> TRUE, w |-> contents.obj]
           ELSE UNCHANGED <<controls, graph_state, shapes_store, pending_chart,
                            pending_selector, imported>>
        /\ last' = [op |-> "load_work", contents |-> contents, result |-> out.result]
  /\ download_work' = NoDownload
  /\ UNCHANGED <<config_file, self_config, selector_options, figure,
                 pending_initial, fetch_failures,
                 write_failures, stock_data>>

LoadWork(contents) ==
  /\ Idle
  /\ LoadWorkOn(contents)
  /\ UNCHANGED in_flight

\* one invocation of save_work
SaveWork ==
  /\ Idle
  /\ download_work' =
       [sent |-> TRUE,
        content |-> save_work(config_file, controls["notes"], graph_state, shapes_store)]
  /\ last' = [op |-> "save_work"]
  /\ UNCHANGED <<config_file, self_config, controls, shapes_store, graph_state,
                 selector_options, figure, pending_chart,
                 pending_selector, pending_initial, imported, fetch_failures,
                 write_failures, stock_data, in_flight>>

\* what the provider call of the evaluation can do
FetchOutcomes == {"ok", "error"}

ChartRun(triggers, saved, fetch, computed, result) ==
  [op |-> "update_chart", only_interval |-> only_interval(triggers),
   timer |-> TimerProp \in triggers, saved |-> saved,
   fetch |-> fetch, computed |-> computed, result |-> result]

\* what save_config can do: write the file; raise in open() and leave the
\* file as it is; raise in json.dump and leave the file open() truncated
SaveOutcomes == {"ok", "open_fails", "dump_fails"}

\* one invocation of update_chart for the inputs that changed
UpdateChart(save) ==
  /\ pending_chart # {}
  /\ ~pending_initial
  /\ pending_chart' = {}
  /\ IF chart_no_update(pending_chart, controls["auto_refresh"])
     THEN /\ save = "ok"
          /\ last' = ChartRun(pending_chart, FALSE, "none", {}, "no_update")
          /\ UNCHANGED <<config_file, figure, fetch_failures, write_failures,
                         shapes_store>>
     ELSE IF save # "ok"
     THEN /\ write_failures < MaxWriteFailures
          /\ write_failures' = write_failures + 1
          /\ config_file' = IF save = "dump_fails" THEN FileCorrupt ELSE config_file
          /\ last' = ChartRun(pending_chart, FALSE, "none", {}, "raised")
          /\ UNCHANGED <<figure, fetch_failures, shapes_store>>
     ELSE /\ config_file' = save_config(chart_config(controls))
          /\ write_failures' = write_failures
          /\ \E outcome \in FetchOutcomes :
               IF outcome = "error"
               THEN /\ fetch_failures < MaxFetchFailures
                    /\ fetch_failures' = fetch_failures + 1
                    /\ shapes_store' = shapes_store
                    /\ IF controls["data_source"] = "alpha_vantage"
                       THEN /\ figure' = error_figure
                            /\ last' = ChartRun(pending_chart, TRUE, "error", {},
                                                "error_figure")
                       ELSE /\ figure' = figure
                            /\ last' = ChartRun(pending_chart, TRUE, "error", {}, "raised")
               ELSE /\ fetch_failures' = fetch_failures
                    /\ IF shapes_raise(shapes_store)
                       THEN /\ figure' = figure
                            /\ shapes_store' = shapes_store
                            /\ last' = ChartRun(pending_chart, TRUE, "ok",
                                   computed_indicators(controls["indicators"]), "raised")
                       ELSE /\ figure' = chart_figure(controls, shapes_store,
                                             Get(self_config, "graph_state", EmptyDict))
                            /\ shapes_store' =
                                 store_after_chart(shapes_store, crisp_shapes(shapes_store))
                            /\ last' = ChartRun(pending_chart, TRUE, "ok",
                                   computed_indicators(controls["indicators"]), "figure")
  /\ download_work' = NoDownload
  /\ UNCHANGED <<self_config, controls, graph_state, selector_options,
                 pending_selector, pending_initial, imported, stock_data, in_flight>>

Next ==
  \/ Restart
  \/ \E k \in DOMAIN UserChoices : \E v \in UserChoices[k] : SetInput(k, v)
  \/ Tick
  \/ InitialGraphAndShapes
  \/ \E relayoutData \in RelayoutEvents : Relayout(relayoutData)
  \/ \E selected_shape \in SelectorValues : DeleteClick(selected_shape)
  \/ ClearClick
  \/ ShapeSelector
  \/ \E contents \in Uploads : LoadWork(contents)
  \/ SaveWork
  \/ UpdateChart("ok")

\* the application with a configuration file that can always be written
Spec == Init /\ [][Next]_vars

\* the application with a configuration file whose writes can fail
NextFaults ==
  \/ Next
  \/ \E save \in SaveOutcomes \ {"ok"} : UpdateChart(save)

SpecFaults == Init /\ [][NextFaults]_vars

\* ------------------------------------------ the page with requests in flight
\* The stores live in the page, not in the server: a callback request carries
\* the values its State had when it was sent, app.run_server answers requests
\* in threads of the development server and takes no lock, and the page stores
\* the outputs of an answer when it arrives.  The steps are those of the two
\* callbacks that write the shapes store; update_shape_selector and update_chart
\* only read it and stay waiting.
GraphAndShapesRequest(trigger, relayoutData, selected_shape) ==
  [handler |-> "update_graph_and_shapes", trigger |-> trigger,
   relayoutData |-> relayoutData, selected_shape |-> selected_shape,
   current_shapes |-> shapes_store, current_graph_state |-> graph_state]

LoadWorkRequest(contents) == [handler |-> "load_work", contents |-> contents]

\* the page sends a request of a callback that has none in flight
Send(request) ==
  /\ ~pending_initial
  /\ \A r \in in_flight : r.handler # request.handler
  /\ in_flight' = in_flight \cup {request}
  /\ UNCHANGED <<config_file, self_config, controls, shapes_store, graph_state,
                 selector_options, figure, download_work, pending_chart,
                 pending_selector, pending_initial, fetch_failures, write_failures,
                 last, imported, stock_data>>

\* the answer of a request arrives and the page stores its outputs
Answer(request) ==
  /\ request \in in_flight
  /\ in_flight' = in_flight \ {request}
  /\ IF request.handler = "load_work"
     THEN LoadWorkOn(request.contents)
     ELSE /\ GraphAndShapesOn(request.trigger, request.relayoutData,
                              request.selected_shape, request.current_shapes,
                              request.current_graph_state)
          /\ imported' = NotImported
          /\ UNCHANGED pending_initial

NextInterleaved ==
  \/ InitialGraphAndShapes
  \/ \E relayoutData \in RelayoutEvents :
       Send(GraphAndShapesRequest(RelayoutProp, relayoutData, NoneStr))
  \/ \E selected_shape \in SelectorValues :
       Send(GraphAndShapesRequest(DeleteProp, EmptyDict, selected_shape))
  \/ Send(GraphAndShapesRequest(ClearProp, EmptyDict, NoneStr))
  \/ \E contents \in Uploads : Send(LoadWorkRequest(contents))
  \/ \E request \in in_flight : Answer(request)

SpecInterleaved == Init /\ [][NextInterleaved]_vars

\* ------------------------------------------- the indicators on a frame
\* the session at rest, a fetched frame in self.data
InitIndicators ==
  /\ config_file = FileAbsent
  /\ SessionStart(config_file, self_config, controls, shapes_store, graph_state,
                  selector_options, figure, download_work,
                  pending_chart, pending_selector, pending_initial)
  /\ fetch_failures = 0
  /\ write_failures = 0
  /\ last = [op |-> "fetch_data"]
  /\ imported = NotImported
  /\ stock_data \in FetchedFrames
  /\ in_flight = {}

session_vars ==
  <<config_file, self_config, controls, shapes_store, graph_state,
    selector_options, figure, download_work, pending_chart,
    pending_selector, pending_initial, fetch_failures, write_failures, imported,
    in_flight>>

CalculateMovingAverages ==
  /\ "SMA_Short" \notin DOMAIN stock_data
  /\ stock_data' = calculate_moving_averages(stock_data)
  /\ last' = [op |-> "calculate_moving_averages"]
  /\ UNCHANGED session_vars

CalculateBollingerBands ==
  /\ "UpperBand" \notin DOMAIN stock_data
  /\ stock_data' = calculate_bollinger_bands(stock_data)
  /\ last' = [op |-> "calculate_bollinger_bands"]
  /\ UNCHANGED session_vars

CalculateRsi ==
  /\ "RSI" \notin DOMAIN stock_data
  /\ stock_data' = calculate_rsi(stock_data)
  /\ last' = [op |-> "calculate_rsi"]
  /\ UNCHANGED session_vars

CalculateMacd ==
  /\ "MACD" \notin DOMAIN stock_data
  /\ stock_data' = calculate_macd(stock_data)
  /\ last' = [op |-> "calculate_macd"]
  /\ UNCHANGED session_vars

NextIndicators ==
  \/ CalculateMovingAverages
  \/ CalculateBollingerBands
  \/ CalculateRsi
  \/ CalculateMacd

SpecIndicators == InitIndicators /\ [][NextIndicators]_vars

\* ------------------------------------------------ fetching from a provider
\* the most bars a provider response holds in the model
MaxFetched == 3

\* a raw index label of a provider response: a readable time (an instant t in the
\* zone tz) or a label that is not a time
Stamp(t, tz) == [t |-> t, tz |-> tz]
Garbage == [raw |-> "n/a"]
NaT == [nat |-> TRUE]
Zones == {"none", "America/New_York"}
RawLabels(tz) == {Stamp(t, tz) : t \in 1..MaxFetched} \cup {Garbage}

\* pd.to_datetime(index, errors='coerce'): a label that is not a time becomes NaT
to_datetime_coerce(index) ==
  [i \in 1..Len(index) |-> IF "t" \in DOMAIN index[i] THEN index[i] ELSE NaT]

\* index.tz_localize(None): the zone is dropped, NaT stays NaT
tz_localize_none(index) ==
  [i \in 1..Len(index) |->
     IF "t" \in DOMAIN index[i] THEN Stamp(index[i].t, "none") ELSE index[i]]

\* what both fetch_data do to the index of the frame they were given: the rows
\* keep the order and the number the provider gave them
naive_index(data) ==
  [data EXCEPT !["index"] = tz_localize_none(to_datetime_coerce(data["index"]))]

\* the close of bar i of a response
ResponseClose(i) == Rat(100 + i, 1)

\* what the providers can answer: up to MaxFetched bars, in any order of their
\* labels, with repeated and unreadable labels
Indexes ==
  UNION {UNION {[1..n -> RawLabels(tz)] : n \in 1..MaxFetched} : tz \in Zones}

YahooResponses ==
  {("index" :> index) @@ ("Close" :> [i \in 1..Len(index) |-> ResponseClose(i)]) :
     index \in Indexes}

AlphaVantageResponses ==
  {("index" :> index) @@ ("4. close" :> [i \in 1..Len(index) |-> ResponseClose(i)]) :
     index \in Indexes}

\* StockData.fetch_data on the answer of stock.history
yahoo_fetch_data(response) == naive_index(response)

\* the columns StockDataAlphaVantage.fetch_data renames
alpha_vantage_columns ==
  ("1. open" :> "Open") @@ ("2. high" :> "High") @@ ("3. low" :> "Low") @@
  ("4. close" :> "Close") @@ ("5. volume" :> "Volume")

renamed(column) ==
  IF column \in DOMAIN alpha_vantage_columns
  THEN alpha_vantage_columns[column] ELSE column

rename_columns(data) ==
  [k \in {renamed(c) : c \in DOMAIN data} |->
     data[CHOOSE c \in DOMAIN data : renamed(c) = k]]

\* the request StockDataAlphaVantage.fetch_data sends for self.interval
alpha_vantage_request(interval) ==
  IF interval \in {"5m", "10m", "1h"}
  THEN [function |-> "get_intraday",
        interval |-> CASE interval = "5m" -> "5min"
                       [] interval = "10m" -> "15min"
                       [] interval = "1h" -> "60min",
        outputsize |-> "full"]
  ELSE IF interval = "1d" THEN [function |-> "get_daily", outputsize |-> "full"]
  ELSE IF interval = "1wk" THEN [function |-> "get_weekly"]
  ELSE IF interval = "1mo" THEN [function |-> "get_monthly"]
  ELSE [function |-> "get_daily", outputsize |-> "full"]

\* StockDataAlphaVantage.fetch_data on the answer of the request
alpha_vantage_fetch_data(response) == naive_index(rename_columns(response))

\* the values of the interval dropdown, and one the file can hold besides
Intervals == {"5m", "10m", "1h", "1d", "1wk", "1mo", "2h"}
Periods == {"6mo", "1y"}

InitFetch ==
  /\ config_file = FileAbsent
  /\ SessionStart(config_file, self_config, controls, shapes_store, graph_state,
                  selector_options, figure, download_work,
                  pending_chart, pending_selector, pending_initial)
  /\ fetch_failures = 0
  /\ write_failures = 0
  /\ last = [op |-> "__init__"]
  /\ imported = NotImported
  /\ stock_data = NoData
  /\ in_flight = {}

\* StockData(stock_symbol, period, interval, extended_hours) in update_chart:
\* the constructor fetches once
FetchYahoo(period, interval, ext_hours, response) ==
  /\ last.op = "__init__"
  /\ stock_data' = yahoo_fetch_data(response)
  /\ last' = [op |-> "fetch_data", provider |-> "yahoo",
              request |-> [function |-> "history", period |-> period,
                           interval |-> interval, prepost |-> ext_hours]]
  /\ UNCHANGED session_vars

\* StockDataAlphaVantage(stock_symbol, interval) in update_chart: the period and
\* the extended hours of the controls are not handed over
FetchAlphaVantage(period, interval, ext_hours, response) ==
  /\ last.op = "__init__"
  /\ stock_data' = alpha_vantage_fetch_data(response)
  /\ last' = [op |-> "fetch_data", provider |-> "alpha_vantage",
              self_interval |-> interval,
              request |-> alpha_vantage_request(interval)]
  /\ UNCHANGED session_vars

NextFetch ==
  \/ \E period \in Periods, interval \in Intervals, ext_hours \in BOOLEAN,
        response \in YahooResponses :
       FetchYahoo(period, interval, ext_hours, response)
  \/ \E period \in Periods, interval \in Intervals, ext_hours \in BOOLEAN,
        response \in AlphaVantageResponses :
       FetchAlphaVantage(period, interval, ext_hours, response)

SpecFetch == InitFetch /\ [][NextFetch]_vars

\* =============================================================== claims
\* the step just taken is an invocation of update_chart
ChartStep == pending_chart # {} /\ pending_chart' = {} /\ last'.op = "update_chart"

\* the in-memory workspace: settings, notes, view state, shapes
Workspace ==
  [k \in DOMAIN DefaultConfig |->
     IF k = "shapes" THEN shapes_store
     ELSE IF k = "graph_state" THEN graph_state
     ELSE controls[k]]

\* the workspace a payload stands for, its missing fields defaulted
WorkspaceOf(obj) == [k \in DOMAIN DefaultConfig |-> Get(obj, k, DefaultConfig[k])]

\* C1: an evaluation of update_chart whose triggers are all the timer, with
\* auto-refresh not containing "enabled", is a no-op: nothing is fetched,
\* nothing computed, the configuration file is not written and the figure
\* stays the one emitted before.
C1_TimerOnlyIsNoOp ==
  [][(ChartStep /\ only_interval(pending_chart)
        /\ "enabled" \notin controls["auto_refresh"])
       => /\ last'.result = "no_update"
          /\ last'.fetch = "none"
          /\ ~last'.saved
          /\ last'.computed = {}
          /\ fetch_failures' = fetch_failures
          /\ config_file' = config_file
          /\ figure' = figure]_vars

C1_Witness ==
  /\ last.op = "update_chart"
  /\ last.only_interval
  /\ last.result = "no_update"
  /\ "enabled" \notin controls["auto_refresh"]
  /\ figure.kind = "chart"

\* C2: once a workspace with all 14 fields has been imported and the chart
\* evaluation it triggers has run, save_work exports a workspace equal to it.
C2_ExportOfImportIsIdentity ==
  (last.op = "save_work" /\ imported.active
     /\ DOMAIN imported.w = DOMAIN DefaultConfig)
    => download_work.content = imported.w

\* C3: after load_work has accepted a payload, every field of the in-memory
\* workspace is the one the payload determines.
C3_ImportReplacesEveryField ==
  (last.op = "load_work" /\ last.result = "outputs")
    => Workspace = WorkspaceOf(last.contents.obj)

\* a payload that is a JSON object with every field of the documented structure
StructurallyValid(obj) ==
  \A i \in 1..Len(Get(obj, "shapes", <<>>)) : IsObject(obj["shapes"][i])

InvalidUpload(contents) ==
  \/ contents.kind \in {"nosplit", "badbase64", "notjson", "nonobject"}
  \/ contents.kind = "object" /\ ~StructurallyValid(contents.obj)

\* C4: load_work on an invalid payload changes none of the notes, the
\* settings, the view state and the shapes, and raises nothing.
C4_InvalidImportIsSilentNoOp ==
  [][(last'.op = "load_work" /\ InvalidUpload(last'.contents))
       => /\ controls' = controls
          /\ graph_state' = graph_state
          /\ shapes_store' = shapes_store
          /\ last'.result # "raised"]_vars

\* C5: whatever the data source, an evaluation whose provider fetch fails
\* ends with the placeholder error figure; nothing is raised.
C5_FetchFailureGivesErrorFigure ==
  (last.op = "update_chart" /\ last.fetch = "error")
    => (last.result = "error_figure" /\ figure = error_figure)

\* C6: a restart of the application starts with the shapes store the
\* previous session ended with.
C6_ShapesSurviveRestart ==
  [][last'.op = "restart" => shapes_store' = shapes_store]_vars

\* the selected value names no position of the list
OutOfRange(selected, shapes) ==
  selected = NoneStr \/ shapes = <<>> \/ int(selected) \notin 0..(Len(shapes) - 1)

\* C7: a delete trigger whose selected index is negative, at least the length
\* of the list, absent, or issued on an empty list leaves the shape list as
\* it is.
C7_DeleteOutOfRangeIsNoOp ==
  /\ [](\A selected \in {NoneStr, "-1"} \cup {str(i) : i \in 0..MaxShapes} :
          OutOfRange(selected, shapes_store)
            => update_graph_and_shapes(DeleteProp, EmptyDict, 1, 1, selected,
                                       shapes_store, graph_state).shapes = shapes_store)
  /\ [][(last'.op = "update_graph_and_shapes" /\ last'.trigger = DeleteProp
           /\ OutOfRange(last'.selected_shape, shapes_store))
          => shapes_store' = shapes_store]_vars

C7_Witness ==
  /\ last.op = "update_graph_and_shapes"
  /\ last.trigger = DeleteProp
  /\ last.selected_shape = "1"
  /\ Len(shapes_store) = 1

\* C8: after a clear-all trigger the shapes store is the empty list, whatever
\* the shapes, the view state and the selection were.
C8_ClearYieldsEmptyList ==
  [][(last'.op = "update_graph_and_shapes" /\ last'.trigger = ClearProp)
       => shapes_store' = <<>>]_vars

C8_Witness ==
  /\ last.op = "update_graph_and_shapes"
  /\ last.trigger = ClearProp
  /\ shapes_store = <<>>
  /\ "shapes" \in DOMAIN graph_state
  /\ graph_state["shapes"] # <<>>

IndicatorCodes == {"ma", "bb", "rsi", "macd", "avg"}

HasTrace(fig, name) == \E i \in 1..Len(fig.traces) : fig.traces[i].name = name

Count(b) == IF b THEN 1 ELSE 0

\* the panels of a figure are [price], [price, RSI], [price, MACD] or
\* [price, RSI, MACD], each trace on the row of its panel
PanelsInOrder(fig) ==
  LET rsi == HasTrace(fig, "RSI")
      macd == HasTrace(fig, "MACD")
  IN /\ fig.rows = 1 + Count(rsi) + Count(macd)
     /\ fig.rows <= 3
     /\ fig.subplot_titles =
          <<"Price Chart">> \o (IF rsi THEN <<"RSI">> ELSE <<>>)
                            \o (IF macd THEN <<"MACD">> ELSE <<>>)
     /\ \A i \in 1..Len(fig.traces) :
          fig.traces[i].row =
            IF fig.traces[i].name = "RSI" THEN 2
            ELSE IF fig.traces[i].name \in {"MACD", "MACD Signal"}
            THEN (IF rsi THEN 3 ELSE 2)
            ELSE 1

\* C9: the price panel is row 1, RSI when requested is row 2, MACD when
\* requested is row 3 with RSI and row 2 without; there are
\* 1 + (RSI requested) + (MACD requested) panels, never more than 3.
C9_PanelOrderIsFixed ==
  /\ [](figure.kind = "chart" => PanelsInOrder(figure))
  /\ [](\A indicators \in SUBSET IndicatorCodes :
          /\ rsi_row(indicators) = (IF "rsi" \in indicators THEN 2 ELSE 0)
          /\ macd_row(indicators) =
               (IF "macd" \notin indicators THEN 0
                ELSE IF "rsi" \in indicators THEN 3 ELSE 2)
          /\ total_rows(indicators) =
               1 + Count("rsi" \in indicators) + Count("macd" \in indicators))
  /\ [][(ChartStep /\ last'.result = "figure")
          => /\ HasTrace(figure', "RSI") <=> "rsi" \in controls["indicators"]
             /\ HasTrace(figure', "MACD") <=> "macd" \in controls["indicators"]]_vars

C9_Witness ==
  /\ figure.kind = "chart"
  /\ figure.rows = 3
  /\ HasTrace(figure, "RSI")
  /\ HasTrace(figure, "MACD")

\* the shapes a figure draws
FigureShapes(fig) == Get(fig.layout, "shapes", <<>>)

\* the drawn shape is the stored one but for the width of its line
SameButWidth(drawn, stored) ==
  /\ DOMAIN drawn = (DOMAIN stored) \cup {"line"}
  /\ \A k \in (DOMAIN stored) \ {"line"} : drawn[k] = stored[k]
  /\ DOMAIN drawn["line"] = (DOMAIN Get(stored, "line", EmptyDict)) \cup {"width"}
  /\ \A k \in (DOMAIN Get(stored, "line", EmptyDict)) \ {"width"} :
       drawn["line"][k] = stored["line"][k]

\* C11: a chart evaluation that builds a figure draws every stored shape, in
\* the order of the store, each with a line width of at least 2 whatever
\* width the stored shape has (none, below 2, above 2).
C11_ShapesRedrawnWithWidthFloor ==
  /\ [](\A shape \in {S_rect, S_line, S_thick} :
          /\ crisp_shape(shape)["line"]["width"] >= 2
          /\ SameButWidth(crisp_shape(shape), shape))
  /\ [][(ChartStep /\ last'.result = "figure")
          => /\ Len(FigureShapes(figure')) = Len(shapes_store)
             /\ \A i \in 1..Len(shapes_store) :
                  /\ FigureShapes(figure')[i]["line"]["width"] >= 2
                  /\ SameButWidth(FigureShapes(figure')[i], shapes_store[i])]_vars

\* a figure that draws a shape stored without a line and one stored with a
\* width above 2
C11_Witness ==
  /\ last.op = "update_chart"
  /\ last.result = "figure"
  /\ Len(FigureShapes(figure)) = Len(shapes_store)
  /\ shapes_store = <<S_rect, S_thick>>

\* C10: the layout of a chart evaluation contains every override of the
\* current view state.
C10_ViewStateIsInLayout ==
  (last.op = "update_chart" /\ last.result = "figure")
    => \A k \in (DOMAIN graph_state) \ {"shapes"} :
         k \in DOMAIN figure.layout /\ figure.layout[k] = graph_state[k]

\* the step just taken is update_graph_and_shapes run for a relayout event
RelayoutStep ==
  last'.op = "update_graph_and_shapes" /\ last'.trigger = RelayoutProp

\* C12: a relayout event with shape data makes that data the shape list; one
\* without shape data leaves the shape list as it is and makes the event the
\* view state; an empty event changes neither. Nothing else of the workspace
\* changes.
C12_RelayoutReplacesShapes ==
  /\ [](\A relayoutData \in {[shapes |-> <<>>], [shapes |-> <<S_line>>]} :
          update_graph_and_shapes(RelayoutProp, relayoutData, 0, 0, NoneStr,
                                  shapes_store, graph_state)
            = [shapes |-> relayoutData["shapes"], graph_state |-> relayoutData])
  /\ [][RelayoutStep
          => /\ "shapes" \in DOMAIN last'.relayoutData
                  => /\ shapes_store' = last'.relayoutData["shapes"]
                     /\ graph_state' = last'.relayoutData
             /\ (last'.relayoutData # EmptyDict
                   /\ "shapes" \notin DOMAIN last'.relayoutData)
                  => /\ shapes_store' = shapes_store
                     /\ graph_state' = last'.relayoutData
             /\ last'.relayoutData = EmptyDict
                  => /\ shapes_store' = shapes_store
                     /\ graph_state' = graph_state
             /\ controls' = controls
             /\ config_file' = config_file]_vars

\* the event listed the one shape left of two: the list is that shape alone
C12_Witness ==
  /\ last.op = "update_graph_and_shapes"
  /\ last.trigger = RelayoutProp
  /\ last.relayoutData = [shapes |-> <<S_thick>>]
  /\ shapes_store = <<S_thick>>

\* a pan/zoom event while shapes are stored: the list is kept
C12_WitnessZoom ==
  /\ last.op = "update_graph_and_shapes"
  /\ last.trigger = RelayoutProp
  /\ last.relayoutData = GS_zoom
  /\ graph_state = GS_zoom
  /\ shapes_store # <<>>

\* C13: load_work on a JSON object without a `shapes` field makes the shapes
\* store the empty list, whatever it held, and raises nothing.
C13_MissingShapesDefaultEmpty ==
  [][(last'.op = "load_work" /\ last'.contents.kind = "object"
        /\ "shapes" \notin DOMAIN last'.contents.obj)
       => /\ last'.result = "outputs"
          /\ shapes_store' = <<>>]_vars

\* the selector still lists the shapes that were stored before the import
C13_Witness ==
  /\ last.op = "load_work"
  /\ last.contents = Upload("object", W_partial)
  /\ last.result = "outputs"
  /\ shapes_store = <<>>
  /\ Len(selector_options) = 2

\* the figure on display was built for the instrument, period and interval
\* the components hold: a chart evaluation has accepted them
ShownSettingsCurrent ==
  /\ figure.kind = "chart"
  /\ figure.layout["title"]
       = <<controls["stock"], controls["time_period"], controls["interval"]>>

\* C14: when the configuration file cannot be parsed at the time save_work
\* reads it, the handler raises nothing and exports the settings the chart
\* evaluations have accepted, which are those in memory.
C14_CorruptFileKeepsLastSettings ==
  (last.op = "save_work" /\ config_file.status = "corrupt" /\ ShownSettingsCurrent)
    => \A k \in {"stock", "time_period", "interval"} :
         download_work.content[k] = controls[k]

\* C15: an evaluation of update_chart that is not the no-op and whose
\* save_config fails still fetches, computes and emits a figure.
C15_WriteFailureDoesNotBlockChart ==
  [][(ChartStep /\ ~chart_no_update(pending_chart, controls["auto_refresh"])
        /\ write_failures' > write_failures)
       => /\ last'.fetch # "none"
          /\ last'.result \in {"figure", "error_figure"}
          /\ figure'.kind # "none"]_vars

RECURSIVE CloseSum(_, _, _)
CloseSum(close, lo, hi) ==
  IF lo > hi THEN 0
  ELSE IF lo = hi THEN close[lo].num
  ELSE LET mid == (lo + hi) \div 2
       IN CloseSum(close, lo, mid) + CloseSum(close, mid + 1, hi)

\* col has a value for every bar: none for the first w - 1 bars, the mean of
\* the last w closes from then on
IsMeanOfLast(col, close, w) ==
  /\ Len(col) = Len(close)
  /\ \A i \in 1..Len(close) :
       IF i < w THEN col[i] = NaN
       ELSE /\ col[i].kind = "num"
            /\ col[i].num * w = CloseSum(close, i - w + 1, i) * col[i].den

\* C17: calculate_moving_averages gives SMA_Short (window 20) and SMA_Long
\* (window 50), one value per bar: undefined at the first window - 1 bars,
\* the mean of the last window closes at every later bar; a series shorter
\* than the window gets undefined values only.
C17_MovingAverages ==
  "SMA_Short" \in DOMAIN stock_data
    => /\ IsMeanOfLast(stock_data["SMA_Short"], stock_data["Close"], 20)
       /\ IsMeanOfLast(stock_data["SMA_Long"], stock_data["Close"], 50)

\* a series of changing closes long enough for both windows
C17_Witness ==
  /\ "SMA_Long" \in DOMAIN stock_data
  /\ Len(stock_data["Close"]) > 50
  /\ stock_data["SMA_Long"][49] = NaN
  /\ stock_data["SMA_Long"][50].kind = "num"
  /\ stock_data["SMA_Long"][50] # stock_data["SMA_Long"][51]
  /\ stock_data["SMA_Short"][20] # stock_data["SMA_Long"][50]

\* the 14 changes that end at bar i exist and none of them is a fall
NoLossInWindow(close, i) ==
  /\ i > 14
  /\ \A j \in (i - 13)..i : close[j].num >= close[j - 1].num

\* one of the 14 changes that end at bar i is a rise
GainInWindow(close, i) ==
  \E j \in (i - 13)..i : close[j].num > close[j - 1].num

\* a defined value within [0, 100]
InRsiRange(v) ==
  v.kind = "num" => (FLeq(Zero, v) /\ FLeq(v, Rat(100, 1)))

\* C18 as stated: every defined RSI value lies in [0, 100], and at every bar
\* whose 14-bar window is full and whose average loss is 0 the RSI is 100.
C18_RsiSaturatesAtZeroLoss ==
  "RSI" \in DOMAIN stock_data
    => \A i \in 1..Len(stock_data["Close"]) :
         /\ InRsiRange(stock_data["RSI"][i])
         /\ NoLossInWindow(stock_data["Close"], i)
              => stock_data["RSI"][i] = Rat(100, 1)

\* C18 amended: every RSI value is undefined or lies in [0, 100]; at every
\* bar whose 14-bar window is full and whose average loss is 0 the RSI is 100
\* if the average gain is positive, and undefined if the average gain is 0.
C18_RsiSaturatesUnlessFlat ==
  "RSI" \in DOMAIN stock_data
    => \A i \in 1..Len(stock_data["Close"]) :
         /\ stock_data["RSI"][i].kind \in {"num", "nan"}
         /\ InRsiRange(stock_data["RSI"][i])
         /\ (NoLossInWindow(stock_data["Close"], i)
               /\ GainInWindow(stock_data["Close"], i))
              => stock_data["RSI"][i] = Rat(100, 1)
         /\ (NoLossInWindow(stock_data["Close"], i)
               /\ ~GainInWindow(stock_data["Close"], i))
              => stock_data["RSI"][i] = NaN

\* a series flat at first and rising at the end: undefined in the flat
\* window, 100 in the rising one, strictly between 0 and 100 nowhere
C18_Witness ==
  /\ "RSI" \in DOMAIN stock_data
  /\ Len(stock_data["Close"]) > 50
  /\ NoLossInWindow(stock_data["Close"], 20)
  /\ ~GainInWindow(stock_data["Close"], 20)
  /\ stock_data["RSI"][20] = NaN
  /\ GainInWindow(stock_data["Close"], Len(stock_data["Close"]))
  /\ stock_data["RSI"][Len(stock_data["Close"])] = Rat(100, 1)

\* every bar closes at the same price
IsFlat(close) == \A i \in 1..Len(close) : close[i] = close[1]

\* col is undefined before bar w and equals value from bar w on
FlatFrom(col, w, value) ==
  \A i \in 1..Len(col) : col[i] = (IF i < w THEN NaN ELSE value)

\* C19: on a series that closes at the same price c at every bar, SMA_Short
\* and SMA_Long are c wherever they are defined, UpperBand and LowerBand are
\* the SMA wherever they are defined, and the RSI is undefined at every bar.
C19_FlatSeries ==
  (Len(stock_data["Close"]) > 0 /\ IsFlat(stock_data["Close"]))
    => /\ "SMA_Short" \in DOMAIN stock_data
            => /\ FlatFrom(stock_data["SMA_Short"], 20, stock_data["Close"][1])
               /\ FlatFrom(stock_data["SMA_Long"], 50, stock_data["Close"][1])
       /\ "UpperBand" \in DOMAIN stock_data
            => /\ FlatFrom(stock_data["SMA"], 20, stock_data["Close"][1])
               /\ stock_data["UpperBand"] = stock_data["SMA"]
               /\ stock_data["LowerBand"] = stock_data["SMA"]
       /\ "RSI" \in DOMAIN stock_data
            => \A i \in 1..Len(stock_data["Close"]) : stock_data["RSI"][i] = NaN

\* 60 bars at 100 with every indicator computed
C19_Witness ==
  /\ Len(stock_data["Close"]) = 60
  /\ IsFlat(stock_data["Close"])
  /\ stock_data["Close"][1] = Rat(100, 1)
  /\ {"SMA_Long", "UpperBand", "RSI"} \subseteq DOMAIN stock_data
  /\ stock_data["SMA_Long"][60] = Rat(100, 1)
  /\ stock_data["UpperBand"][60] = Rat(100, 1)
  /\ stock_data["RSI"][60] = NaN

\* the integer sum of the squared closes of bars lo..hi
RECURSIVE CloseSquares(_, _, _)
CloseSquares(close, lo, hi) ==
  IF lo > hi THEN 0
  ELSE IF lo = hi THEN close[lo].num * close[lo].num
  ELSE LET mid == (lo + hi) \div 2
       IN CloseSquares(close, lo, mid) + CloseSquares(close, mid + 1, hi)

\* the population variance of the 20 closes that end at bar i: the sum of the
\* squared deviations from their mean, divided by 20
PopulationVariance(close, i) ==
  LET sum == CloseSum(close, i - 19, i)
      squares == CloseSquares(close, i - 19, i)
  IN Rat(20 * squares - sum * sum, 20 * 20)

\* C20: at every bar with a full 20-bar window UpperBand is SMA + 2 sigma and
\* LowerBand is SMA - 2 sigma, sigma being the population standard deviation
\* of the 20 closes of the window.
C20_BandsUsePopulationDeviation ==
  "UpperBand" \in DOMAIN stock_data
    => \A i \in 20..Len(stock_data["Close"]) :
         LET sma == Rat(CloseSum(stock_data["Close"], i - 19, i), 20)
             sigma == FSqrt(PopulationVariance(stock_data["Close"], i))
         IN /\ stock_data["SMA"][i] = sma
            /\ stock_data["UpperBand"][i] = FAdd(sma, FMul(sigma, Rat(2, 1)))
            /\ stock_data["LowerBand"][i] = FSub(sma, FMul(sigma, Rat(2, 1)))

\* C21: the frame a fetch_data of either provider leaves in self.data has
\* readable, strictly increasing (hence unique) timestamps, whatever the order
\* of the bars the provider answered with
StrictlyIncreasing(index) ==
  /\ \A i \in 1..Len(index) : "t" \in DOMAIN index[i]
  /\ \A i \in 1..(Len(index) - 1) : index[i].t < index[i + 1].t

C21_TimestampsStrictlyIncreasing ==
  last.op = "fetch_data" => StrictlyIncreasing(stock_data["index"])

\* C26: the request of the secondary provider asks for bars of the granularity
\* of the interval that was chosen
canonical_granularity ==
  ("5m" :> "5-minute") @@ ("10m" :> "10-minute") @@ ("1h" :> "60-minute") @@
  ("1d" :> "daily") @@ ("1wk" :> "weekly") @@ ("1mo" :> "monthly")

bar_granularity(request) ==
  CASE request.function = "get_intraday" ->
         (CASE request.interval = "5min" -> "5-minute"
            [] request.interval = "15min" -> "15-minute"
            [] request.interval = "60min" -> "60-minute")
    [] request.function = "get_daily" -> "daily"
    [] request.function = "get_weekly" -> "weekly"
    [] request.function = "get_monthly" -> "monthly"

C26_RequestGranularityIsInterval ==
  (/\ last.op = "fetch_data"
   /\ last.provider = "alpha_vantage"
   /\ last.self_interval \in DOMAIN canonical_granularity)
  => bar_granularity(last.request) = canonical_granularity[last.self_interval]

\* C22: no answer of update_graph_and_shapes is stored over a shapes store that
\* another handler changed after the request took its snapshot of the store
C22_NoStaleOverwrite ==
  [][\A r \in in_flight \ in_flight' :
       r.handler = "update_graph_and_shapes" => r.current_shapes = shapes_store]_vars

\* C23: the chart evaluation that follows the handling of a relayout event
\* without shape data (a pan/zoom) fetches nothing and leaves the figure as it is
C23_PanZoomCausesNoFetch ==
  [][(/\ ChartStep
      /\ last.op = "update_graph_and_shapes"
      /\ last.trigger = RelayoutProp
      /\ "shapes" \notin DOMAIN last.relayoutData)
     => (last'.fetch = "none" /\ figure' = figure)]_vars

\* C24: a delete trigger with a selected index inside the list removes the shape
\* at that position and no other: the list is one shorter and the other shapes
\* keep their order; delete and clear triggers leave the view state as it is
DeleteInRange ==
  /\ last'.op = "update_graph_and_shapes"
  /\ last'.trigger = DeleteProp
  /\ last'.selected_shape \in {str(i) : i \in 0..(Len(shapes_store) - 1)}

C25_ChartLeavesWorkspace ==
  [][ChartStep
       => /\ shapes_store' = shapes_store
          /\ graph_state' = graph_state
          /\ controls'["notes"] = controls["notes"]]_vars

\* a figure was built whose shape has width 2 while the stored shape has not
C25_Witness ==
  /\ last.op = "update_chart"
  /\ last.result = "figure"
  /\ shapes_store # <<>>
  /\ figure.layout["shapes"][1]["line"]["width"] = 2
  /\ shapes_store[1] = S_line
  /\ graph_state # EmptyDict

\* C27: once update_shape_selector has run for the current shapes store, the
\* selector offers one option per stored shape, in order, with the values
\* "0" .. "len-1", and none when the store is empty
C27_OptionsMatchStore ==
  (~pending_selector /\ ~pending_initial)
  => /\ Len(selector_options) = Len(shapes_store)
     /\ \A i \in 1..Len(selector_options) : selector_options[i].value = str(i - 1)

\* C28: after calculate_macd, MACD and MACD_Signal are defined at every bar of
\* the series, and both are 0 at the first bar
C28_MacdDefinedFromFirstBar ==
  "MACD" \in DOMAIN stock_data
  => /\ Len(stock_data["MACD"]) = Len(stock_data["Close"])
     /\ Len(stock_data["MACD_Signal"]) = Len(stock_data["Close"])
     /\ \A i \in 1..Len(stock_data["Close"]) :
          /\ stock_data["MACD"][i].kind = "num"
          /\ stock_data["MACD_Signal"][i].kind = "num"
     /\ Len(stock_data["Close"]) > 0
          => /\ stock_data["MACD"][1] = Zero
             /\ stock_data["MACD_Signal"][1] = Zero

\* a series of MaxBars bars whose MACD has left 0 by the last bar
C28_Witness ==
  /\ "MACD" \in DOMAIN stock_data
  /\ Len(stock_data["Close"]) = MaxBars
  /\ stock_data["MACD"][MaxBars] # Zero
  /\ stock_data["MACD_Signal"][MaxBars] # Zero

====
